---- MODULE Spec2Model ----
(***************************************************************************)
(* A model of package ttlcache (cache.go): a sync.Map from string keys to  *)
(* *Item, a default expiration, lazy expiration in Load, DeleteExpired,    *)
(* and the gc goroutine that New starts.                                   *)
(*                                                                         *)
(* Time is an integer clock `now` (the value time.Now() returns).  The     *)
(* zero time.Time{} is ZeroTime, and every instant time.Now() can return   *)
(* is after it.                                                            *)
(***************************************************************************)
EXTENDS Integers, FiniteSets, Sequences, TLC

\* ---------------------------------------------------------------- bounds
\* The clock runs from 1 to MaxTime.
MaxTime == 3
\* The finite positive durations callers pass are 1..MaxTTL.
MaxTTL == 1

\* ------------------------------------------------------ program constants
NoExpiration == -1
DefaultExpiration == 0
\* time.Time{}: the value of `var e time.Time` when no deadline is computed.
ZeroTime == 0

Keys == {"a", "b"}
\* The goroutines: callers of the cache's methods and the gc goroutine New
\* starts.  Every call is run one sync.Map operation or one reading of the
\* clock at a time, and the steps of the goroutines interleave freely.  The
\* callers use the methods cache.go declares, except in MapSpec, where they
\* also use those of the embedded sync.Map.  Where two callers contend, one
\* stores and deletes and the other loads and sweeps, on the keys of ConcKeys
\* (every sync.Map call of the cache addresses one key, and Range hands the keys
\* to its callback one at a time), or the other ranges, on the keys of Keys.
Writers == {"w"}
Readers == {"r"}
Callers == Writers \cup Readers
Sweepers == {"gc"}
Goroutines == Callers \cup Sweepers
ConcKeys == {"a"}
Values == {"v1", "v2"}
\* the values stored where two keys are in use
FrameValues == {"v1"}
\* the nil interface{} Load returns with found = false
Nil == "nil"
NoKey == "-"

\* durations a caller can pass to Store, and to New as defaultExpiration
Durations == {NoExpiration, DefaultExpiration} \cup (1..MaxTTL)
\* cleanup intervals passed to New
Intervals == {0, 1}

\* New's arguments.  cleanupInterval is read by the gc goroutine alone, so when
\* New starts none a single interval stands for all of them.
Configs == {c \in [de : Durations, ci : Intervals] : c.de > 0 \/ c.ci = 1}

\* a channel that was never made
NilChan == "nil"

\* Cache.stop: newCache's composite literal leaves the field unset, and nothing
\* assigns it later
StopChan == NilChan

\* the absence of a key in the sync.Map
NoItem == [Persistent |-> FALSE, Object |-> Nil, Expiration |-> -1]

\* a value that is no *Item: the embedded sync.Map takes any interface{}
NotItem == [Persistent |-> FALSE, Object |-> "raw", Expiration |-> -2]

VARIABLES
    now,                \* time.Now()
    cfg,                \* the arguments New was called with
    defaultExpiration,  \* Cache.defaultExpiration
    store,              \* Cache.Map: key -> *Item, NoItem when absent
    gcpc,               \* where the goroutine `go c.gc(ci)` is
    tickC,              \* number of ticks buffered in ticker.C (capacity 1)
    last,               \* the call that completed last, and what it returned
    issued,             \* per key, the last Store or Delete call completed on it
    pc,                 \* per goroutine, the statement it is at inside a call
    loc,                \* per goroutine, the local variables of that call
    stopper,            \* where the goroutine that runs stopGC(c) is
    sweep               \* the record of a caller's DeleteExpired or Range, where one is kept

vars == <<now, cfg, defaultExpiration, store, gcpc, tickC, last, issued, pc, loc, stopper, sweep>>

\* ------------------------------------------------------------- functions

\* time.Time.After
After(t, u) == t > u

\* Expired counting the deadline itself as past
ExpiredAtDeadline(item, t) == (~item.Persistent) /\ t >= item.Expiration

\* Item.Expired, evaluated when time.Now() returns t
Expired(item, t) ==
    IF item.Persistent THEN FALSE ELSE After(t, item.Expiration)

\* Store without the DefaultExpiration substitution
ResolveTTLNoDefault(d, de) == d

\* Store, lines 47-49: the duration after the DefaultExpiration substitution
ResolveTTL(d, de) == IF d = DefaultExpiration THEN de ELSE d

\* Store, lines 46 and 50-52: the deadline e
Deadline(d, t) == IF d > 0 THEN t + d ELSE ZeroTime

\* Store, lines 54-58: the &Item{...} put in the map
NewItem(x, d, p, de, t) ==
    [Persistent |-> p, Object |-> x, Expiration |-> Deadline(ResolveTTL(d, de), t)]

\* Store through sync.Map.LoadOrStore: an existing entry is kept
MapStoreIfAbsent(m, k, item) == IF m[k] # NoItem THEN m ELSE [m EXCEPT ![k] = item]

\* a Delete that empties the map
MapDeleteClears(m, k) == [j \in Keys |-> NoItem]

\* sync.Map.Store / sync.Map.Delete
MapStore(m, k, item) == [m EXCEPT ![k] = item]
MapDelete(m, k) == [m EXCEPT ![k] = NoItem]

\* newCache, lines 122-124
NormalizeDefault(de) == IF de = 0 THEN -1 ELSE de

\* New starting the goroutine for every default but the negative ones
StartsGCNonNegative(de) == de >= 0

\* New starting the goroutine only for defaults above one
StartsGCAboveOne(de) == de > 1

\* New, line 145: whether `go c.gc(cleanupInterval)` is run
StartsGC(de) == de > 0

\* Load testing Before where the code tests After
LoadExpiredBefore(item, t) == (~item.Persistent) /\ t < item.Expiration

\* Load with an expiry test that is late by one instant
LoadExpiredLate(item, t) == (~item.Persistent) /\ After(t, item.Expiration + 1)

\* Load, lines 74-75: the inlined expiry test
LoadExpired(item, t) == (~item.Persistent) /\ After(t, item.Expiration)

Present(m) == {k \in Keys : m[k] # NoItem}

\* keys of m that are absent from m2
Removed(m, m2) == {k \in Keys : m[k] # NoItem /\ m2[k] = NoItem}

NoCall == [op |-> "none", x |-> Nil, d |-> 0, p |-> FALSE, t0 |-> 0]
DeleteCall == [op |-> "Delete", x |-> Nil, d |-> 0, p |-> FALSE, t0 |-> 0]
\* t0 is the instant of the call; it is kept for the calls whose deadline is
\* counted from it (those whose resolved duration is positive)
StoreCall(x, d, p, t) ==
    [op |-> "Store", x |-> x, d |-> d, p |-> p,
     t0 |-> IF ResolveTTL(d, defaultExpiration) > 0 THEN t ELSE 0]

\* what a call did: its result (found, val), the entry it read (item), and the
\* keys whose entry it removed or replaced (gone)
Result(op, k, found, val, item, gone) ==
    [op |-> op, k |-> k, found |-> found, val |-> val, item |-> item, gone |-> gone]

EmptyMap == [k \in Keys |-> NoItem]

\* the locals of a goroutine that is in no call: k, item and the keys Range has
\* still to visit are variables of the code; call records the Store call a
\* Store is making, or the one that built the entry a Load has read; calls
\* records the calls a Range has made of its callback so far
NoLocals == [k |-> NoKey, item |-> NoItem, todo |-> {}, call |-> NoCall, calls |-> <<>>]

\* the record of a caller's DeleteExpired or Range that nothing has disturbed:
\* the map and the clock when it began, the keys it has removed, whether it
\* began right after another DeleteExpired returned and at the instant that one
\* had begun (again); prev is the instant at which the undisturbed DeleteExpired
\* that has just returned had begun, 0 once any other step was taken
NoSweep == [on |-> FALSE, m0 |-> EmptyMap, t0 |-> 0, gone |-> {}, again |-> FALSE, prev |-> 0]

\* a step inside a call, which returns nothing yet
Running == Result("running", NoKey, FALSE, Nil, NoItem, {})

\* a call made on the embedded sync.Map and not through the cache's methods
RawCall == [op |-> "raw", x |-> Nil, d |-> 0, p |-> FALSE, t0 |-> 0]

\* a panic in any goroutine ends the process
Alive == gcpc # "panic" /\ \A g \in Goroutines : pc[g] # "panic"

\* ------------------------------------------------------------------ Init

\* The state when New(de, ci) returns.
Init ==
    /\ now = 1
    /\ cfg \in Configs
    /\ defaultExpiration = NormalizeDefault(cfg.de)
    /\ store = [k \in Keys |-> NoItem]
    /\ gcpc = IF StartsGC(cfg.de) THEN "start" ELSE "off"
    /\ tickC = 0
    /\ last = Result("New", NoKey, FALSE, Nil, NoItem, {})
    /\ issued = [k \in Keys |-> NoCall]
    /\ pc = [g \in Goroutines |-> "idle"]
    /\ loc = [g \in Goroutines |-> NoLocals]
    /\ stopper = "idle"
    /\ sweep = NoSweep

\* --------------------------------------------------------------- actions
\* One action per sync.Map operation or reading of the clock, run by goroutine g.

\* the clock advances
Advance ==
    /\ Alive
    /\ now < MaxTime
    /\ now' = now + 1
    /\ last' = Result("Advance", NoKey, FALSE, Nil, NoItem, {})
    /\ UNCHANGED <<cfg, defaultExpiration, store, gcpc, tickC, issued, pc, loc, stopper>>

\* Store, lines 46-52: the deadline is computed from time.Now()
StoreBegin(g, k, x, d, p) ==
    /\ Alive /\ pc[g] = "idle"
    /\ Deadline(ResolveTTL(d, defaultExpiration), now) <= MaxTime
    /\ pc' = [pc EXCEPT ![g] = "storeCommit"]
    /\ loc' = [loc EXCEPT ![g] = [NoLocals EXCEPT
                  !.k = k, !.item = NewItem(x, d, p, defaultExpiration, now),
                  !.call = StoreCall(x, d, p, now)]]
    /\ last' = Running
    /\ UNCHANGED <<now, cfg, defaultExpiration, store, gcpc, tickC, issued, stopper>>

\* Store, lines 54-58: c.Map.Store
StoreCommit(g) ==
    /\ Alive /\ pc[g] = "storeCommit"
    /\ store' = MapStore(store, loc[g].k, loc[g].item)
    /\ issued' = [issued EXCEPT ![loc[g].k] = loc[g].call]
    /\ last' = Result("Store", loc[g].k, FALSE, Nil, NoItem, Present(store) \cap {loc[g].k})
    /\ pc' = [pc EXCEPT ![g] = "idle"]
    /\ loc' = [loc EXCEPT ![g] = NoLocals]
    /\ UNCHANGED <<now, cfg, defaultExpiration, gcpc, tickC, stopper>>

\* the Store call that built the entry k holds: the last call completed on k
Origin(k) == IF store[k] = NoItem THEN NoCall ELSE issued[k]

\* a failed type assertion v.(*Item), lines 72 and 96, panics
Panic(g) ==
    /\ last' = Result("panic", NoKey, FALSE, Nil, NoItem, {})
    /\ pc' = [pc EXCEPT ![g] = "panic"]
    /\ loc' = loc

\* Load, lines 67-72: c.Map.Load and the type assertion
LoadRead(g, k) ==
    /\ Alive /\ pc[g] = "idle"
    /\ CASE store[k] = NoItem ->
               /\ last' = Result("Load", k, FALSE, Nil, NoItem, {})
               /\ UNCHANGED <<pc, loc>>
         [] store[k] = NotItem -> Panic(g)
         [] OTHER ->
               /\ last' = Running
               /\ pc' = [pc EXCEPT ![g] = "loadCheck"]
               /\ loc' = [loc EXCEPT ![g] = [NoLocals EXCEPT
                             !.k = k, !.item = store[k], !.call = Origin(k)]]
    /\ UNCHANGED <<now, cfg, defaultExpiration, store, gcpc, tickC, issued, stopper>>

\* a Load with sliding expiration: a hit on a finite entry moves its deadline
LoadCheckSliding(g) ==
    /\ Alive /\ pc[g] = "loadCheck"
    /\ IF LoadExpired(loc[g].item, now)
       THEN /\ pc' = [pc EXCEPT ![g] = "loadDelete"]
            /\ last' = Running
            /\ loc' = loc
            /\ store' = store
       ELSE /\ pc' = [pc EXCEPT ![g] = "idle"]
            /\ last' = Result("Load", loc[g].k, TRUE, loc[g].item.Object, loc[g].item, {})
            /\ loc' = [loc EXCEPT ![g] = NoLocals]
            /\ store' = IF loc[g].item.Persistent \/ store[loc[g].k] = NoItem THEN store
                        ELSE MapStore(store, loc[g].k,
                                      [loc[g].item EXCEPT !.Expiration = now + MaxTTL])
    /\ UNCHANGED <<now, cfg, defaultExpiration, gcpc, tickC, issued, stopper>>

\* Load, lines 74-75 and 80: the expiry test on the item that was read
LoadCheck(g) ==
    /\ Alive /\ pc[g] = "loadCheck"
    /\ IF LoadExpired(loc[g].item, now)
       THEN /\ pc' = [pc EXCEPT ![g] = "loadDelete"]
            /\ last' = Running
            /\ loc' = loc
       ELSE /\ pc' = [pc EXCEPT ![g] = "idle"]
            /\ last' = Result("Load", loc[g].k, TRUE, loc[g].item.Object, loc[g].item, {})
            /\ loc' = [loc EXCEPT ![g] = NoLocals]
    /\ UNCHANGED <<now, cfg, defaultExpiration, store, gcpc, tickC, issued, stopper>>

\* Load, lines 76-77: c.Map.Delete(k), whatever k holds by now
LoadDelete(g) ==
    /\ Alive /\ pc[g] = "loadDelete"
    /\ store' = MapDelete(store, loc[g].k)
    /\ last' = Result("Load", loc[g].k, FALSE, Nil, loc[g].item, Present(store) \cap {loc[g].k})
    /\ pc' = [pc EXCEPT ![g] = "idle"]
    /\ loc' = [loc EXCEPT ![g] = NoLocals]
    /\ UNCHANGED <<now, cfg, defaultExpiration, gcpc, tickC, issued, stopper>>

\* Cache.Delete(k) is one c.Map.Delete
Delete(g, k) ==
    /\ Alive /\ pc[g] = "idle"
    /\ store' = MapDelete(store, k)
    /\ issued' = [issued EXCEPT ![k] = DeleteCall]
    /\ last' = Result("Delete", k, FALSE, Nil, store[k], Removed(store, store'))
    /\ UNCHANGED <<now, cfg, defaultExpiration, gcpc, tickC, pc, loc, stopper>>

\* a Range that may pass over keys the map holds when it starts
RangeTodoPartial(m, K) == SUBSET K

\* sync.Map.Range visits every key that is present when it starts; a key of K
\* that is stored while it runs may be visited or not
RangeTodo(m, K) == {S \in SUBSET K : Present(m) \subseteq S}

\* Cache.DeleteExpired(), line 95: a caller's sweep starts its Range
DeleteExpiredBegin(g, S) ==
    /\ Alive /\ pc[g] = "idle"
    /\ pc' = [pc EXCEPT ![g] = "range"]
    /\ loc' = [loc EXCEPT ![g] = [NoLocals EXCEPT !.todo = S]]
    /\ last' = Running
    /\ UNCHANGED <<now, cfg, defaultExpiration, store, gcpc, tickC, issued, stopper>>

\* gc, line 109: time.NewTicker(ci) panics when ci <= 0
GcStart ==
    /\ gcpc = "start"
    /\ gcpc' = IF cfg.ci <= 0 THEN "panic" ELSE "select"
    /\ last' = Result("GcStart", NoKey, FALSE, Nil, NoItem, {})
    /\ UNCHANGED <<now, cfg, defaultExpiration, store, tickC, issued, pc, loc, stopper>>

\* the ticker puts a tick in ticker.C, whose buffer holds one.  How much time
\* a cleanup interval is, is left open; a tick that arrives during a sweep is
\* read by nothing until gc is back at its select, and is put there then
TickerFire ==
    /\ gcpc = "select" /\ tickC = 0
    /\ tickC' = 1
    /\ last' = Result("Tick", NoKey, FALSE, Nil, NoItem, {})
    /\ UNCHANGED <<now, cfg, defaultExpiration, store, gcpc, issued, pc, loc, stopper>>

\* gc, lines 112-113: a tick is received and DeleteExpired starts its Range
GcReceive(S) ==
    /\ gcpc = "select" /\ tickC = 1
    /\ tickC' = 0
    /\ gcpc' = "sweep"
    /\ loc' = [loc EXCEPT !["gc"] = [NoLocals EXCEPT !.todo = S]]
    /\ pc' = [pc EXCEPT !["gc"] = "range"]
    /\ last' = Running
    /\ UNCHANGED <<now, cfg, defaultExpiration, store, issued, stopper>>

\* Range loads the value of the next key and calls the callback with it, line 96,
\* where the value is asserted to be an *Item; a key that is absent by now is
\* skipped
RangeVisit(g) ==
    /\ Alive /\ pc[g] = "range"
    /\ \E k \in loc[g].todo :
          CASE store[k] = NoItem ->
                  /\ loc' = [loc EXCEPT ![g].todo = @ \ {k}]
                  /\ pc' = pc
                  /\ last' = Running
            [] store[k] = NotItem -> Panic(g)
            [] OTHER ->
                  /\ loc' = [loc EXCEPT ![g].todo = @ \ {k}, ![g].k = k, ![g].item = store[k]]
                  /\ pc' = [pc EXCEPT ![g] = "rangeCheck"]
                  /\ last' = Running
    /\ UNCHANGED <<now, cfg, defaultExpiration, store, gcpc, tickC, issued, stopper>>

\* the callback, line 97: item.Expired()
RangeCheck(g) ==
    /\ Alive /\ pc[g] = "rangeCheck"
    /\ IF Expired(loc[g].item, now)
       THEN /\ pc' = [pc EXCEPT ![g] = "rangeDelete"]
            /\ loc' = loc
       ELSE /\ pc' = [pc EXCEPT ![g] = "range"]
            /\ loc' = [loc EXCEPT ![g].k = NoKey, ![g].item = NoItem]
    /\ last' = Running
    /\ UNCHANGED <<now, cfg, defaultExpiration, store, gcpc, tickC, issued, stopper>>

\* the callback, line 98: c.Delete(k), whatever k holds by now
RangeDelete(g) ==
    /\ Alive /\ pc[g] = "rangeDelete"
    /\ store' = MapDelete(store, loc[g].k)
    /\ pc' = [pc EXCEPT ![g] = "range"]
    /\ loc' = [loc EXCEPT ![g].k = NoKey, ![g].item = NoItem]
    /\ last' = Running
    /\ UNCHANGED <<now, cfg, defaultExpiration, gcpc, tickC, issued, stopper>>

\* Range has visited every key: DeleteExpired returns
RangeEnd(g) ==
    /\ Alive /\ pc[g] = "range" /\ loc[g].todo = {}
    /\ pc' = [pc EXCEPT ![g] = "idle"]
    /\ loc' = [loc EXCEPT ![g] = NoLocals]
    /\ gcpc' = IF g = "gc" THEN "select" ELSE gcpc
    /\ last' = Result(IF g = "gc" THEN "GcSweep" ELSE "DeleteExpired",
                      NoKey, FALSE, Nil, NoItem, {})
    /\ UNCHANGED <<now, cfg, defaultExpiration, store, tickC, issued, stopper>>

\* ------------------------------------------------------- the cache in use
\* no record of the sweeps is kept
NoRecord == UNCHANGED sweep

\* Two callers and the gc goroutine on one key: "w" stores and deletes, "r"
\* loads and sweeps.
Next ==
    \/ Advance /\ NoRecord
    \/ \E g \in Writers, k \in ConcKeys, x \in Values, d \in Durations, p \in BOOLEAN :
          StoreBegin(g, k, x, d, p) /\ NoRecord
    \/ \E g \in Writers : StoreCommit(g) /\ NoRecord
    \/ \E g \in Writers, k \in ConcKeys : Delete(g, k) /\ NoRecord
    \/ \E g \in Readers, k \in ConcKeys : LoadRead(g, k) /\ NoRecord
    \/ \E g \in Readers : LoadCheck(g) /\ NoRecord
    \/ \E g \in Readers : LoadDelete(g) /\ NoRecord
    \/ \E g \in Readers, S \in RangeTodo(store, ConcKeys) : DeleteExpiredBegin(g, S) /\ NoRecord
    \/ GcStart /\ NoRecord
    \/ TickerFire /\ NoRecord
    \/ \E S \in RangeTodo(store, ConcKeys) : GcReceive(S) /\ NoRecord
    \/ \E g \in Readers \cup Sweepers : RangeVisit(g) /\ NoRecord
    \/ \E g \in Readers \cup Sweepers : RangeCheck(g) /\ NoRecord
    \/ \E g \in Readers \cup Sweepers : RangeDelete(g) /\ NoRecord
    \/ \E g \in Readers \cup Sweepers : RangeEnd(g) /\ NoRecord

Spec == Init /\ [][Next]_vars

\* One caller, which makes every call, and the gc goroutine, on two keys.  The
\* record `sweep` is kept of the caller's DeleteExpired; it is dropped when the
\* gc goroutine changes the map while that DeleteExpired runs.

\* a step that neither begins nor ends a caller's DeleteExpired nor removes a
\* key: the DeleteExpired that returned before it is no longer the last step
Other == sweep' = [sweep EXCEPT !.prev = 0]

FrameNext ==
    \/ Advance /\ Other
    \/ \E g \in Writers, k \in Keys, x \in FrameValues, d \in Durations, p \in BOOLEAN :
          StoreBegin(g, k, x, d, p) /\ Other
    \/ \E g \in Writers : StoreCommit(g) /\ Other
    \/ \E g \in Writers, k \in Keys : Delete(g, k) /\ Other
    \/ \E g \in Writers, k \in Keys : LoadRead(g, k) /\ Other
    \/ \E g \in Writers : LoadCheck(g) /\ Other
    \/ \E g \in Writers : LoadDelete(g) /\ Other
    \/ \E g \in Writers, S \in RangeTodo(store, Keys) :
          /\ DeleteExpiredBegin(g, S)
          /\ sweep' = [on |-> TRUE, m0 |-> store, t0 |-> now, gone |-> {},
                       again |-> (sweep.prev = now), prev |-> 0]
    \/ GcStart /\ Other
    \/ TickerFire /\ Other
    \/ \E S \in RangeTodo(store, Keys) : GcReceive(S) /\ Other
    \/ \E g \in Writers \cup Sweepers : RangeVisit(g) /\ Other
    \/ \E g \in Writers \cup Sweepers : RangeCheck(g) /\ Other
    \/ \E g \in Writers : RangeDelete(g)
          /\ sweep' = IF sweep.on
                       THEN [sweep EXCEPT !.gone = @ \cup (Present(store) \cap {loc[g].k})]
                       ELSE sweep
    \/ RangeDelete("gc")
          /\ sweep' = IF sweep.on /\ store' # store THEN NoSweep ELSE [sweep EXCEPT !.prev = 0]
    \/ \E g \in Writers : RangeEnd(g) /\ sweep' = [NoSweep EXCEPT !.prev = sweep.t0]
    \/ RangeEnd("gc") /\ Other

FrameSpec == Init /\ [][FrameNext]_vars

\* ------------------------------------------------- the background task alone
\* The caller only stores; entries leave the map through the gc goroutine alone.
BgNext ==
    \/ Advance /\ NoRecord
    \/ \E g \in Writers, k \in ConcKeys, x \in Values, d \in Durations, p \in BOOLEAN :
          StoreBegin(g, k, x, d, p) /\ NoRecord
    \/ \E g \in Writers : StoreCommit(g) /\ NoRecord
    \/ GcStart /\ NoRecord
    \/ TickerFire /\ NoRecord
    \/ \E S \in RangeTodo(store, ConcKeys) : GcReceive(S) /\ NoRecord
    \/ RangeVisit("gc") /\ NoRecord
    \/ RangeCheck("gc") /\ NoRecord
    \/ RangeDelete("gc") /\ NoRecord
    \/ RangeEnd("gc") /\ NoRecord

\* the gc goroutine is scheduled and its ticker keeps firing; the clock advances,
\* and a Store that was begun is completed
GcFair ==
    /\ WF_vars(Advance /\ NoRecord)
    /\ WF_vars((\E g \in Writers : StoreCommit(g)) /\ NoRecord)
    /\ WF_vars(GcStart /\ NoRecord)
    /\ WF_vars(TickerFire /\ NoRecord)
    /\ WF_vars((\E S \in RangeTodo(store, ConcKeys) : GcReceive(S)) /\ NoRecord)
    /\ WF_vars(RangeVisit("gc") /\ NoRecord)
    /\ WF_vars(RangeCheck("gc") /\ NoRecord)
    /\ WF_vars(RangeDelete("gc") /\ NoRecord)
    /\ WF_vars(RangeEnd("gc") /\ NoRecord)

LiveSpec == Init /\ [][BgNext]_vars /\ GcFair

\* --------------------------------------------------------------- teardown
\* stopGC(c), line 105: c.stop <- true, run for a cache whose gc goroutine sits
\* in its select.  A send on a nil channel blocks forever; on a made channel it
\* meets the receive of line 114, and gc stops its ticker and returns.
StopGC ==
    /\ Alive /\ stopper = "idle" /\ gcpc = "select"
    /\ stopper' = IF StopChan = NilChan THEN "blocked" ELSE "done"
    /\ gcpc' = IF StopChan = NilChan THEN gcpc ELSE "stopped"
    /\ last' = Result("stopGC", NoKey, FALSE, Nil, NoItem, {})
    /\ UNCHANGED <<now, cfg, defaultExpiration, store, tickC, issued, pc, loc>>

StopNext ==
    \/ Advance /\ NoRecord
    \/ \E g \in Writers, k \in ConcKeys, x \in Values, d \in Durations, p \in BOOLEAN :
          StoreBegin(g, k, x, d, p) /\ NoRecord
    \/ \E g \in Writers : StoreCommit(g) /\ NoRecord
    \/ GcStart /\ NoRecord
    \/ TickerFire /\ NoRecord
    \/ \E S \in RangeTodo(store, ConcKeys) : GcReceive(S) /\ NoRecord
    \/ RangeVisit("gc") /\ NoRecord
    \/ RangeCheck("gc") /\ NoRecord
    \/ RangeDelete("gc") /\ NoRecord
    \/ RangeEnd("gc") /\ NoRecord
    \/ StopGC /\ NoRecord

StopSpec == Init /\ [][StopNext]_vars /\ GcFair

\* ------------------------------------------------- the embedded sync.Map
\* Cache embeds an exported *sync.Map (line 36): its methods are callable on a
\* cache, as c.Map.M or, where Cache declares no M of its own, as c.M.  Each is
\* one atomic operation of the map.  c.Map.Delete is what Cache.Delete runs and
\* c.Map.Range what Cache.Range runs; c.Map.Load reads without the expiry test.

\* the values a caller can hand to the map: an *Item it has built, with any
\* deadline, or a value that is no *Item
RawValues ==
    {NotItem} \cup [Persistent : BOOLEAN, Object : FrameValues, Expiration : {ZeroTime, MaxTime}]

\* what a call on the embedded map leaves unchanged, and what it records
MapCall(op, k, found, item) ==
    /\ last' = Result(op, k, found, Nil, item, Removed(store, store'))
    /\ issued' = [j \in Keys |-> IF store'[j] = store[j] THEN issued[j] ELSE RawCall]
    /\ UNCHANGED <<now, cfg, defaultExpiration, gcpc, tickC, pc, loc, stopper>>

\* c.Map.Store(k, v) and c.Swap(k, v)
Swap(g, k, v) ==
    /\ Alive /\ pc[g] = "idle"
    /\ store' = MapStore(store, k, v)
    /\ MapCall("Swap", k, store[k] # NoItem, store[k])

\* c.LoadOrStore(k, v)
LoadOrStore(g, k, v) ==
    /\ Alive /\ pc[g] = "idle"
    /\ store' = IF store[k] = NoItem THEN MapStore(store, k, v) ELSE store
    /\ MapCall("LoadOrStore", k, store[k] # NoItem, store[k])

\* c.CompareAndSwap(k, old, v), with the value k was seen to hold
CompareAndSwap(g, k, old, v) ==
    /\ Alive /\ pc[g] = "idle"
    /\ store' = IF store[k] = old /\ old # NoItem THEN MapStore(store, k, v) ELSE store
    /\ MapCall("CompareAndSwap", k, store[k] = old /\ old # NoItem, NoItem)

\* c.LoadAndDelete(k)
LoadAndDelete(g, k) ==
    /\ Alive /\ pc[g] = "idle"
    /\ store' = MapDelete(store, k)
    /\ MapCall("LoadAndDelete", k, store[k] # NoItem, store[k])

\* c.CompareAndDelete(k, old)
CompareAndDelete(g, k, old) ==
    /\ Alive /\ pc[g] = "idle"
    /\ store' = IF store[k] = old /\ old # NoItem THEN MapDelete(store, k) ELSE store
    /\ MapCall("CompareAndDelete", k, store[k] = old /\ old # NoItem, NoItem)

\* c.Clear()
Clear(g) ==
    /\ Alive /\ pc[g] = "idle"
    /\ store' = EmptyMap
    /\ MapCall("Clear", NoKey, FALSE, NoItem)

\* c.Map.Load(k): the value k holds, whatever its deadline
MapLoad(g, k) ==
    /\ Alive /\ pc[g] = "idle"
    /\ store' = store
    /\ MapCall("MapLoad", k, store[k] # NoItem, store[k])

\* One caller that uses the cache's methods and those of the embedded map, on
\* one key, and the gc goroutine.
MapNext ==
    \/ Advance /\ NoRecord
    \/ \E g \in Writers, k \in ConcKeys, x \in FrameValues, d \in Durations, p \in BOOLEAN :
          StoreBegin(g, k, x, d, p) /\ NoRecord
    \/ \E g \in Writers : StoreCommit(g) /\ NoRecord
    \/ \E g \in Writers, k \in ConcKeys : Delete(g, k) /\ NoRecord
    \/ \E g \in Writers, k \in ConcKeys : LoadRead(g, k) /\ NoRecord
    \/ \E g \in Writers : LoadCheck(g) /\ NoRecord
    \/ \E g \in Writers : LoadDelete(g) /\ NoRecord
    \/ \E g \in Writers, S \in RangeTodo(store, ConcKeys) : DeleteExpiredBegin(g, S) /\ NoRecord
    \/ \E g \in Writers, k \in ConcKeys, v \in RawValues : Swap(g, k, v) /\ NoRecord
    \/ \E g \in Writers, k \in ConcKeys, v \in RawValues : LoadOrStore(g, k, v) /\ NoRecord
    \/ \E g \in Writers, k \in ConcKeys, old, v \in RawValues : CompareAndSwap(g, k, old, v) /\ NoRecord
    \/ \E g \in Writers, k \in ConcKeys : LoadAndDelete(g, k) /\ NoRecord
    \/ \E g \in Writers, k \in ConcKeys, old \in RawValues : CompareAndDelete(g, k, old) /\ NoRecord
    \/ \E g \in Writers : Clear(g) /\ NoRecord
    \/ \E g \in Writers, k \in ConcKeys : MapLoad(g, k) /\ NoRecord
    \/ GcStart /\ NoRecord
    \/ TickerFire /\ NoRecord
    \/ \E S \in RangeTodo(store, ConcKeys) : GcReceive(S) /\ NoRecord
    \/ \E g \in Writers \cup Sweepers : RangeVisit(g) /\ NoRecord
    \/ \E g \in Writers \cup Sweepers : RangeCheck(g) /\ NoRecord
    \/ \E g \in Writers \cup Sweepers : RangeDelete(g) /\ NoRecord
    \/ \E g \in Writers \cup Sweepers : RangeEnd(g) /\ NoRecord

MapSpec == Init /\ [][MapNext]_vars

\* ------------------------------------------------------------ iteration
\* Cache.Range(f), line 90, is c.Map.Range(f): f is called with a key and the
\* value the map holds for it when the key is reached, one key at a time and in
\* an order sync.Map does not specify, until it returns false.  No lock is held
\* between two calls of f: the other goroutines run in between.  f is any
\* closure: what it does and what it returns is chosen at each call.

\* what a callback does with the cache before it returns: nothing, c.Delete of
\* the key it was called with, or a c.Store on that key
Acts == {"look", "delete", "store"}

\* what a Range did: the calls it made of its callback, each with the key and
\* the value it passed and what the callback returned
RangeResult(calls) ==
    [op |-> "Range", k |-> NoKey, found |-> FALSE, val |-> Nil, item |-> NoItem,
     gone |-> {}, calls |-> calls]

\* a Range that hides the entries whose deadline has passed
RangeSkipsExpired(item, t) == item = NoItem \/ Expired(item, t)

\* sync.Map.Range passes over a key that holds nothing when it is reached
RangeSkips(item, t) == item = NoItem

\* Cache.Range(f), line 90: c.Map.Range begins
RangeBegin(g, S) ==
    /\ Alive /\ pc[g] = "idle"
    /\ pc' = [pc EXCEPT ![g] = "visit"]
    /\ loc' = [loc EXCEPT ![g] = [NoLocals EXCEPT !.todo = S]]
    /\ last' = Running
    /\ UNCHANGED <<now, cfg, defaultExpiration, store, gcpc, tickC, issued, stopper>>

\* Range loads the value of the next key and calls f with it.  A callback that
\* only looks returns at once: Range goes on when it returns true and returns
\* when it returns false
RangeCallback(g, act, ret) ==
    /\ Alive /\ pc[g] = "visit"
    /\ \E k \in loc[g].todo :
          IF RangeSkips(store[k], now)
          THEN /\ loc' = [loc EXCEPT ![g].todo = @ \ {k}]
               /\ pc' = pc
               /\ last' = Running
          ELSE LET calls == Append(loc[g].calls,
                                   [k |-> k, item |-> store[k], ret |-> ret])
               IN CASE act # "look" ->
                          /\ loc' = [loc EXCEPT ![g].todo = @ \ {k}, ![g].k = k,
                                                ![g].calls = calls]
                          /\ pc' = [pc EXCEPT ![g] = IF act = "delete" THEN "visitDelete"
                                                                      ELSE "visitStore"]
                          /\ last' = Running
                    [] act = "look" /\ ret ->
                          /\ loc' = [loc EXCEPT ![g].todo = @ \ {k}, ![g].calls = calls]
                          /\ pc' = pc
                          /\ last' = Running
                    [] OTHER ->
                          /\ loc' = [loc EXCEPT ![g] = NoLocals]
                          /\ pc' = [pc EXCEPT ![g] = "idle"]
                          /\ last' = RangeResult(calls)
    /\ UNCHANGED <<now, cfg, defaultExpiration, store, gcpc, tickC, issued, stopper>>

\* the callback calls c.Delete(k), or c.Store(k, x, NoExpiration, p), which
\* reads no clock, and returns
RangeAct(g, x, p) ==
    /\ Alive /\ pc[g] \in {"visitDelete", "visitStore"}
    /\ LET k == loc[g].k
           c == loc[g].calls[Len(loc[g].calls)]
       IN /\ IF pc[g] = "visitDelete"
             THEN /\ store' = MapDelete(store, k)
                  /\ issued' = [issued EXCEPT ![k] = DeleteCall]
             ELSE /\ store' = MapStore(store, k, NewItem(x, NoExpiration, p, defaultExpiration, now))
                  /\ issued' = [issued EXCEPT ![k] = StoreCall(x, NoExpiration, p, now)]
          /\ IF c.ret
             THEN /\ loc' = [loc EXCEPT ![g].k = NoKey]
                  /\ pc' = [pc EXCEPT ![g] = "visit"]
                  /\ last' = Running
             ELSE /\ loc' = [loc EXCEPT ![g] = NoLocals]
                  /\ pc' = [pc EXCEPT ![g] = "idle"]
                  /\ last' = RangeResult(loc[g].calls)
    /\ UNCHANGED <<now, cfg, defaultExpiration, gcpc, tickC, stopper>>

\* Range has been through every key: it returns
RangeReturn(g) ==
    /\ Alive /\ pc[g] = "visit" /\ loc[g].todo = {}
    /\ pc' = [pc EXCEPT ![g] = "idle"]
    /\ loc' = [loc EXCEPT ![g] = NoLocals]
    /\ last' = RangeResult(loc[g].calls)
    /\ UNCHANGED <<now, cfg, defaultExpiration, store, gcpc, tickC, issued, stopper>>

\* The record `sweep` is kept of the caller's Range: the map when it began.  It
\* is dropped when a step changes the map while the Range runs, and when the
\* Range returns.
Watch ==
    sweep' = IF sweep.on /\ store' = store /\ (\E g \in Readers : pc'[g] # "idle")
             THEN sweep ELSE NoSweep

\* Two callers and the gc goroutine on two keys: "w" stores and deletes while
\* "r" ranges.  "w" stores with the default duration, which New's arguments
\* make finite or not; a callback that stores, stores a persistent entry.
IterNext ==
    \/ Advance /\ Watch
    \/ \E g \in Writers, k \in Keys, x \in FrameValues :
          StoreBegin(g, k, x, DefaultExpiration, FALSE) /\ Watch
    \/ \E g \in Writers : StoreCommit(g) /\ Watch
    \/ \E g \in Writers, k \in Keys : Delete(g, k) /\ Watch
    \/ \E g \in Readers, S \in RangeTodo(store, Keys) :
          RangeBegin(g, S) /\ sweep' = [NoSweep EXCEPT !.on = TRUE, !.m0 = store]
    \/ \E g \in Readers, act \in Acts, ret \in BOOLEAN : RangeCallback(g, act, ret) /\ Watch
    \/ \E g \in Readers, x \in FrameValues : RangeAct(g, x, TRUE) /\ Watch
    \/ \E g \in Readers : RangeReturn(g) /\ Watch
    \/ GcStart /\ Watch
    \/ TickerFire /\ Watch
    \/ \E S \in RangeTodo(store, Keys) : GcReceive(S) /\ Watch
    \/ RangeVisit("gc") /\ Watch
    \/ RangeCheck("gc") /\ Watch
    \/ RangeDelete("gc") /\ Watch
    \/ RangeEnd("gc") /\ Watch

IterSpec == Init /\ [][IterNext]_vars
\* ------------------------------------------------------------ properties

\* the entry a Store(k, x, d, persistent=false) with finite d > 0 at t0 leaves
FiniteEntry(x, deadline) == [Persistent |-> FALSE, Object |-> x, Expiration |-> deadline]

\* the entry built by the Store call c: its value, its flag and the deadline
\* counted from the instant of the call
EntryOf(c) ==
    LET ttl == IF c.d = DefaultExpiration THEN defaultExpiration ELSE c.d
    IN [Persistent |-> c.p, Object |-> c.x,
        Expiration |-> IF ttl > 0 THEN c.t0 + ttl ELSE ZeroTime]

\* the Load that has just returned read the map after the call c on its key had
\* completed: it found the key absent, or it read the entry of c
ReadAfter(c) == last.item \in {NoItem, EntryOf(c)}

\* C1: a Load that reads a non-persistent entry strictly after its deadline
\* returns (nil, false), and the key is absent from the map when it returns,
\* whether or not a sweep has run; so a Load that returns found read a
\* persistent entry or one whose deadline had not passed.
C1_LoadNeverStale ==
    (last.op = "Load" /\ last.item # NoItem) =>
        /\ (~last.item.Persistent /\ now > last.item.Expiration) =>
               (~last.found /\ last.val = Nil /\ store[last.k] = NoItem)
        /\ last.found => (last.item.Persistent \/ now <= last.item.Expiration)

\* a Load found a non-persistent entry with a real deadline expired and removed it
C1_Witness ==
    /\ last.op = "Load" /\ last.item # NoItem /\ ~last.item.Persistent
    /\ last.item.Expiration > ZeroTime /\ now > last.item.Expiration
    /\ ~last.found /\ last.gone = {last.k}

\* C2: after Store(k, v, d, false) with finite d > 0 at t0 has completed and no
\* later Store or Delete on k has, a Load(k) that reads the map strictly before
\* t0 + d returns (v, true), one strictly after t0 + d returns (nil, false), and
\* after such a Load k is absent.
C2_FiniteTTLWindow ==
    \A k \in Keys :
        LET c == issued[k] IN
        (c.op = "Store" /\ ~c.p /\ c.d > 0 /\ last.op = "Load" /\ last.k = k /\ ReadAfter(c)) =>
            /\ now < c.t0 + c.d => (last.found /\ last.val = c.x)
            /\ now > c.t0 + c.d => (~last.found /\ last.val = Nil /\ store[k] = NoItem)

\* C3: after Store(k, v, d, persistent=true) has completed, whatever d, and
\* while no later Store or Delete on k has, the map holds that entry, a Load(k)
\* that reads the map returns (v, true), and no Load or sweep removes it.
C3_PersistentImmortal ==
    \A k \in Keys :
        LET c == issued[k] IN
        (c.op = "Store" /\ c.p) =>
            /\ store[k] = EntryOf(c)
            /\ (last.op = "Load" /\ last.k = k /\ ReadAfter(c)) => (last.found /\ last.val = c.x)

\* C4: after Store(k, v, NoExpiration, persistent=false) and no later Store or
\* Delete on k, the entry is never expired: it stays in the map, Expired() is
\* false for it, and every Load(k) returns (v, true).
C4_NoExpirationImmortal ==
    \A k \in Keys :
        LET c == issued[k] IN
        (c.op = "Store" /\ ~c.p /\ c.d = NoExpiration) =>
            /\ store[k] # NoItem /\ store[k].Object = c.x
            /\ ~Expired(store[k], now)
            /\ (last.op = "Load" /\ last.k = k /\ ReadAfter(c)) => (last.found /\ last.val = c.x)

\* C5: on a cache built with a default expiration <= 0, after
\* Store(k, v, DefaultExpiration, persistent=false) and no later Store or Delete
\* on k, every Load(k) returns (v, true) and no sweep removes the entry.
C5_NonPositiveDefaultImmortal ==
    \A k \in Keys :
        LET c == issued[k] IN
        (cfg.de <= 0 /\ c.op = "Store" /\ ~c.p /\ c.d = DefaultExpiration) =>
            /\ store[k] # NoItem /\ store[k].Object = c.x
            /\ (last.op = "Load" /\ last.k = k /\ ReadAfter(c)) => (last.found /\ last.val = c.x)

\* C6: on a cache built with a finite default D > 0, a Store(k, v,
\* DefaultExpiration, false) that reads the clock at t0 builds, and leaves in
\* the map, the entry Store(k, v, D, false) builds at t0, with deadline t0 + D;
\* what a later Load or sweep does depends on the entry it reads alone, so a
\* Load that reads this entry finds it exactly while the clock is not past
\* t0 + D, as it would after the explicit Store.
C6_DefaultEqualsExplicit ==
    /\ \A g \in Callers :
          LET c == loc[g].call IN
          (cfg.de > 0 /\ pc[g] = "storeCommit" /\ ~c.p /\ c.d = DefaultExpiration) =>
              /\ loc[g].item = FiniteEntry(c.x, c.t0 + cfg.de)
              /\ loc[g].item = [Persistent |-> FALSE, Object |-> c.x,
                                Expiration |-> Deadline(ResolveTTL(cfg.de, defaultExpiration), c.t0)]
    /\ \A k \in Keys :
          LET c == issued[k] IN
          (cfg.de > 0 /\ c.op = "Store" /\ ~c.p /\ c.d = DefaultExpiration) =>
              /\ (last.op = "Store" /\ last.k = k) => store[k] = FiniteEntry(c.x, c.t0 + cfg.de)
              /\ store[k] \in {NoItem, FiniteEntry(c.x, c.t0 + cfg.de)}
              /\ (last.op = "Load" /\ last.k = k /\ last.item = FiniteEntry(c.x, c.t0 + cfg.de)) =>
                     /\ last.found <=> (now <= c.t0 + cfg.de)
                     /\ last.found => last.val = c.x

\* a Store with the default ttl has just completed on a cache with a finite
\* default, after the clock has advanced
C6_Witness ==
    \E k \in Keys :
        /\ cfg.de > 0 /\ last.op = "Store" /\ last.k = k
        /\ issued[k].op = "Store" /\ ~issued[k].p /\ issued[k].d = DefaultExpiration
        /\ issued[k].t0 > 1 /\ store[k].Expiration = issued[k].t0 + cfg.de

\* C7: when a Store on k returns, the map holds for k exactly the entry of that
\* Store: its value, its persistent flag and its deadline (the clock it read
\* plus the resolved ttl when that is positive, no deadline otherwise), whatever
\* entry k held.
C7_StoreOverwrites ==
    (last.op = "Store") =>
        LET c == issued[last.k]
            ttl == IF c.d = DefaultExpiration THEN defaultExpiration ELSE c.d
        IN  /\ c.op = "Store"
            /\ store[last.k].Object = c.x
            /\ store[last.k].Persistent = c.p
            /\ store[last.k].Expiration = (IF ttl > 0 THEN c.t0 + ttl ELSE ZeroTime)
            /\ c.t0 <= now

\* a Store replaced an existing entry of its key by a non-persistent one with a
\* fresh deadline
C7_Witness ==
    /\ last.op = "Store" /\ last.gone = {last.k}
    /\ ~store[last.k].Persistent /\ store[last.k].Expiration > now

\* the keys of m whose entry is not persistent and has its deadline strictly
\* before t
PastDeadline(m, t) == {k \in Present(m) : ~m[k].Persistent /\ t > m[k].Expiration}

\* C8: a DeleteExpired that no other goroutine disturbs removes every entry
\* that is not persistent and past its deadline when the call begins, removes
\* only entries that are so when it returns, never a persistent one, and leaves
\* every other entry as it was; when the clock does not advance during the call
\* it removes exactly the entries past their deadline at call time.
C8_SweepRemovesExpired ==
    [][(sweep.on /\ last'.op = "DeleteExpired") =>
        /\ PastDeadline(sweep.m0, sweep.t0) \subseteq sweep.gone
        /\ sweep.gone \subseteq PastDeadline(sweep.m0, now)
        /\ \A k \in sweep.gone : ~sweep.m0[k].Persistent
        /\ store' = [k \in Keys |-> IF k \in sweep.gone THEN NoItem ELSE sweep.m0[k]]
        /\ now = sweep.t0 => sweep.gone = PastDeadline(sweep.m0, sweep.t0)
      ]_vars

\* C8 as stated: a DeleteExpired that no other goroutine disturbs removes all
\* and only the non-persistent entries whose deadline is strictly before the
\* time of the call, and leaves every other entry as it was.
C8_SweepAllAndOnlyExpired ==
    [][(sweep.on /\ last'.op = "DeleteExpired") =>
        /\ sweep.gone = PastDeadline(sweep.m0, sweep.t0)
        /\ store' = [k \in Keys |-> IF k \in PastDeadline(sweep.m0, sweep.t0)
                                     THEN NoItem ELSE sweep.m0[k]]
      ]_vars

\* an undisturbed DeleteExpired is about to return: it has removed an entry
\* with a real deadline and left another one in place
C8_Witness ==
    /\ sweep.on /\ pc["w"] = "range" /\ loc["w"].todo = {}
    /\ \E k \in sweep.gone : sweep.m0[k].Expiration > ZeroTime
    /\ Present(store) # {}

\* a Store on k has been invoked and has not completed
StoreInFlight(k) == \E g \in Callers : pc[g] = "storeCommit" /\ loc[g].k = k

\* C9: once a Store on k whose entry is unexpired (persistent, or a positive ttl
\* whose deadline has not passed) has completed, and no Store or Delete on k
\* was invoked since, k holds that entry, whatever Load or sweep is in flight,
\* and a Load that reads the map returns (v, true).
C9_LastStoreVisible ==
    \A k \in Keys :
        LET c == issued[k]
            ttl == IF c.d = DefaultExpiration THEN defaultExpiration ELSE c.d
        IN (c.op = "Store" /\ ~StoreInFlight(k) /\ (c.p \/ (ttl > 0 /\ now <= c.t0 + ttl))) =>
              /\ store[k] = EntryOf(c)
              /\ (last.op = "Load" /\ last.k = k /\ ReadAfter(c)) =>
                     (last.found /\ last.val = c.x)

\* k holds an entry that a Store(k, x, DefaultExpiration, false) left, on a
\* cache built with a finite default and a positive cleanup interval, and the
\* clock can pass its deadline
HoldsDefaultEntry(k) ==
    /\ cfg.de > 0 /\ cfg.ci > 0
    /\ issued[k].op = "Store" /\ issued[k].d = DefaultExpiration /\ ~issued[k].p
    /\ store[k] # NoItem /\ store[k].Expiration < MaxTime

\* C10: on a cache built by New(D, I) with D > 0 and I > 0, a key that holds an
\* entry stored with the default ttl is eventually absent from the map through
\* the gc goroutine alone (no Load, Delete or DeleteExpired is called), unless
\* a later Store puts another kind of entry there.
C10_BackgroundRemoval ==
    \A k \in Keys : HoldsDefaultEntry(k) ~> (store[k] = NoItem \/ ~HoldsDefaultEntry(k))

\* a sweep of the gc goroutine has returned, and an entry that was stored with
\* the default ttl is gone, its deadline passed, no Store having come after it
C10_Witness ==
    \E k \in Keys :
        /\ cfg.de > 0 /\ cfg.ci > 0
        /\ issued[k].op = "Store" /\ issued[k].d = DefaultExpiration /\ ~issued[k].p
        /\ ~StoreInFlight(k) /\ now > issued[k].t0 + cfg.de
        /\ last.op = "GcSweep" /\ store[k] = NoItem

\* C11: once stopGC has been called for a cache whose gc goroutine is running,
\* the goroutine begins no further DeleteExpired pass, and it eventually
\* leaves its loop (its ticker stopped), once and for all.
C11_StopSignalStopsTask ==
    /\ [][stopper # "idle" => ~(gcpc = "select" /\ gcpc' = "sweep")]_vars
    /\ (stopper # "idle") ~> (gcpc = "stopped")
    /\ [][gcpc = "stopped" => gcpc' = "stopped"]_vars

\* C12: on a cache built with a positive default and a cleanup interval <= 0 the
\* process does not crash: the gc goroutine starts, never sweeps, and the calls
\* keep working.
C12_NonPositiveIntervalHarmless ==
    (cfg.de > 0 /\ cfg.ci <= 0) =>
        /\ gcpc \in {"start", "select"}
        /\ Alive

\* every entry of the map, and every entry a Store, a Load or a sweep is
\* holding, is the entry of one Store call on that key, whole
EntriesWhole ==
    /\ \A k \in Keys : store[k] # NoItem =>
          Origin(k).op = "Store" /\ store[k] = EntryOf(Origin(k))
    /\ \A g \in Callers : pc[g] \in {"storeCommit", "loadCheck", "loadDelete"} =>
          loc[g].call.op = "Store" /\ loc[g].item = EntryOf(loc[g].call)
    /\ \A g \in Goroutines : pc[g] \in {"rangeCheck", "rangeDelete"} =>
          \E x \in Values, p \in BOOLEAN, e \in ZeroTime..MaxTime :
              loc[g].item = [Persistent |-> p, Object |-> x, Expiration |-> e]

\* a Load that returns found returns the value and the entry of the Store call
\* whose entry it read
LoadReturnsStored ==
    \A g \in Readers :
        (pc[g] = "loadCheck" /\ last'.op = "Load" /\ last'.found) =>
            /\ last'.k = loc[g].k
            /\ last'.val = loc[g].call.x
            /\ last'.item = EntryOf(loc[g].call)

\* C13: under every interleaving of the steps of Store, Load, Delete and the
\* sweep's Range, the process neither crashes nor gets stuck, the map and the
\* calls in progress hold only whole entries of single Store calls, and a Load
\* that returns found returns the value of such a call.
C13_NoCrashNoTornEntry ==
    /\ [](Alive /\ ENABLED Next)
    /\ []EntriesWhole
    /\ [][LoadReturnsStored]_vars

\* the part of C13 about entries, without the part about crashes
EntriesNeverTorn == []EntriesWhole /\ [][LoadReturnsStored]_vars

\* C14: a cache has a gc goroutine exactly when the default passed to New is
\* strictly positive, and never more than the one New starts; on a cache
\* without one, a key leaves the map only by a Delete or a Load of that key or
\* by the c.Delete of a caller's DeleteExpired.
C14_TaskIffPositiveDefault ==
    /\ []((gcpc # "off") <=> (cfg.de > 0))
    /\ [](cfg.de <= 0 => pc["gc"] = "idle" /\ tickC = 0)
    /\ [][cfg.de <= 0 =>
            \A k \in Keys : (store[k] # NoItem /\ store'[k] = NoItem) =>
                \/ last'.op \in {"Delete", "Load"} /\ last'.k = k
                \/ \E g \in Callers : pc[g] = "rangeDelete" /\ loc[g].k = k]_vars

\* on a cache without gc goroutine, a caller's DeleteExpired has removed an
\* entry that was stored with a finite ttl
C14_Witness ==
    /\ cfg.de <= 0 /\ gcpc = "off"
    /\ sweep.on
    /\ \E k \in sweep.gone : issued[k].op = "Store" /\ issued[k].d > 0 /\ store[k] = NoItem

\* C15: Delete(k) removes key k and changes no other key: on an absent key
\* the map stays as it was, on a present key exactly that key leaves; and a
\* Load(k) that follows a Delete(k), with no Store(k) between, returns
\* (nil, false).
C15_DeleteOnlyThatKey ==
    /\ [][last'.op = "Delete" =>
            /\ store'[last'.k] = NoItem
            /\ \A j \in Keys \ {last'.k} : store'[j] = store[j]
            /\ (store[last'.k] = NoItem) => (store' = store)
            /\ last'.gone = Present(store) \cap {last'.k}]_vars
    /\ [](\A k \in Keys :
            (issued[k].op = "Delete" /\ last.op = "Load" /\ last.k = k) =>
                (~last.found /\ last.val = Nil))

\* Delete has removed a present key while the other key holds an entry
C15_Witness ==
    /\ last.op = "Delete" /\ last.gone = {last.k}
    /\ Present(store) # {}

\* C16: Range applies no expiry test and changes nothing.  Whatever the other
\* goroutines do, it calls the callback at most once for a key and makes no
\* call after one that returned false, and the steps of a Range whose callback
\* only looks leave the map as it is.  When nothing changes the map while it
\* runs, the calls it has made when it returns are one for each key the map
\* held when it began, entries past their deadline included, each with the entry
\* the map holds, unless the last call returned false; the map is as it was.
C16_RangeVisitsAllNoExpiry ==
    /\ [][last'.op = "Range" =>
            LET c == last'.calls
            IN /\ \A i, j \in DOMAIN c : c[i].k = c[j].k => i = j
               /\ \A i \in DOMAIN c : i < Len(c) => c[i].ret]_vars
    /\ [][\A g \in Readers :
            (pc[g] \in {"idle", "visit"} /\ (pc'[g] # pc[g] \/ loc'[g] # loc[g]))
                => store' = store]_vars
    /\ [][(sweep.on /\ last'.op = "Range" /\ \A g \in Readers : pc[g] = "visit") =>
            LET c == last'.calls
            IN /\ \A i \in DOMAIN c :
                     sweep.m0[c[i].k] # NoItem /\ c[i].item = sweep.m0[c[i].k]
               /\ \/ c # <<>> /\ ~c[Len(c)].ret
                  \/ {c[i].k : i \in DOMAIN c} = Present(sweep.m0)
               /\ store' = sweep.m0]_vars

\* a Range has returned after a call for each of the two keys, every call
\* returning true, one of them with an entry whose finite deadline had passed;
\* the map still holds what the callback was given, and the gc goroutine is at
\* its select
C16_Witness ==
    /\ last.op = "Range" /\ Len(last.calls) = 2
    /\ gcpc = "select"
    /\ \A i \in DOMAIN last.calls :
          /\ last.calls[i].ret
          /\ store[last.calls[i].k] = last.calls[i].item
    /\ \E i \in DOMAIN last.calls :
          LET item == last.calls[i].item
          IN ~item.Persistent /\ item.Expiration > ZeroTime /\ now > item.Expiration

\* C17: Load returns a value with true or nil with false and nothing else; a
\* key that was never stored or was deleted is absent, and a Load that finds
\* its key absent and a Load that reads an entry past its deadline return the
\* same (nil, false); a Load of a key that was never stored leaves the map as
\* it was.
C17_AbsenceIndistinguishable ==
    /\ [](\A k \in Keys : issued[k].op \in {"none", "Delete"} => store[k] = NoItem)
    /\ [](last.op = "Load" =>
            /\ \/ last.found /\ last.val \in Values
               \/ ~last.found /\ last.val = Nil
            /\ last.item = NoItem => (~last.found /\ last.val = Nil)
            /\ (last.item # NoItem /\ ~last.item.Persistent /\ now > last.item.Expiration)
                  => (~last.found /\ last.val = Nil))
    /\ [][(last'.op = "Load" /\ issued[last'.k].op = "none") =>
             (store' = store /\ ~last'.found /\ last'.val = Nil)]_vars

\* a Load has read an entry past its real deadline and returned (nil, false),
\* and a Delete of its key has completed meanwhile
C17_Witness ==
    /\ last.op = "Load" /\ ~last.found /\ last.val = Nil
    /\ ~last.item.Persistent /\ last.item.Expiration > ZeroTime /\ now > last.item.Expiration
    /\ issued[last.k].op = "Delete"

\* C18: DeleteExpired is idempotent: a DeleteExpired that begins as soon as
\* another has returned, the clock standing still from the beginning of the
\* first to the end of the second and no other goroutine changing the map,
\* removes nothing and leaves the map as the first left it.
C18_SweepIdempotent ==
    [][(sweep.on /\ sweep.again /\ now = sweep.t0 /\ last'.op = "DeleteExpired") =>
          (sweep.gone = {} /\ store' = sweep.m0)]_vars

\* a second DeleteExpired is about to return at the instant the first began,
\* on a map that a finite entry, past its deadline, has left, another entry
\* being in place
C18_Witness ==
    /\ sweep.on /\ sweep.again /\ now = sweep.t0
    /\ pc["w"] = "range" /\ loc["w"].todo = {} /\ Present(store) # {}
    /\ \E k \in Keys :
          /\ store[k] = NoItem
          /\ issued[k].op = "Store" /\ ~issued[k].p /\ issued[k].d > 0
          /\ now > issued[k].t0 + issued[k].d

\* the entries a Store can build within the bounds, and the instants of the clock
Items == [Persistent : BOOLEAN, Object : Values, Expiration : ZeroTime..MaxTime]
Instants == ZeroTime..MaxTime

\* C19: Expired() is true exactly when the entry is not persistent and the
\* clock is strictly after its deadline, so at the deadline itself it is false;
\* the test written out in Load decides the same for every entry and instant;
\* and a Load that tests an entry at its exact deadline returns it.
C19_ExpiredStrictlyAfter ==
    /\ \A item \in Items, t \in Instants :
          /\ Expired(item, t) <=> (~item.Persistent /\ t > item.Expiration)
          /\ ~Expired(item, item.Expiration)
          /\ LoadExpired(item, t) <=> Expired(item, t)
    /\ \A k \in Keys : store[k] # NoItem =>
          /\ store[k] \in Items
          /\ LoadExpired(store[k], now) <=> Expired(store[k], now)
    /\ (last.op = "Load" /\ last.item # NoItem) =>
          (last.found <=> ~Expired(last.item, now))
    /\ \A g \in Goroutines : (pc[g] = "rangeDelete") =>
          (~loc[g].item.Persistent /\ now > loc[g].item.Expiration)

\* a Load has returned a finite entry at the very instant of its deadline
C19_Witness ==
    /\ last.op = "Load" /\ last.found
    /\ ~last.item.Persistent /\ last.item.Expiration = now

\* a step of a Load that goroutine g is running
LoadStep(g) ==
    \/ pc[g] = "idle" /\ pc'[g] = "loadCheck"
    \/ pc[g] = "idle" /\ pc' = pc /\ last'.op = "Load"
    \/ pc[g] \in {"loadCheck", "loadDelete"} /\ pc'[g] # pc[g]

\* C20: a Load that returns found leaves the whole map as it was, the deadline
\* of the entry it read included; a Load that returns not found changes no key
\* but its own, which is absent afterwards; and no step of a Load changes
\* another key.
C20_LoadReadOnlyOnHit ==
    /\ [][last'.op = "Load" =>
            /\ last'.found => store' = store
            /\ \A j \in Keys \ {last'.k} : store'[j] = store[j]
            /\ ~last'.found => store'[last'.k] = NoItem]_vars
    /\ [][\A g \in Callers : LoadStep(g) =>
            \/ store' = store
            \/ /\ pc[g] = "loadDelete" /\ ~last'.found
               /\ store' = [store EXCEPT ![loc[g].k] = NoItem]]_vars

\* a Load has returned a finite entry before its deadline, and the map still
\* holds that entry, with the other key present
C20_Witness ==
    /\ last.op = "Load" /\ last.found
    /\ ~last.item.Persistent /\ last.item.Expiration > now
    /\ store[last.k] = last.item
    /\ Present(store) = Keys

\* reached where the embedded map's methods are in use (MapSpec): a caller has
\* put a value that is no *Item in the map, and a Load or a sweep has panicked
\* on it
PanicOnRawValue == ~Alive /\ \E k \in Keys : store[k] = NotItem

====
